---------------------------- MODULE Spec2Model ----------------------------
(***************************************************************************)
(* Model of the Glance bring-up scripts: the e-paper driver of             *)
(* epaper_test.py, the diagnostic runner of display_diagnostic.py, the     *)
(* pin/SPI probe of simple_test.py, the flag cache of fetch_flags.py and   *)
(* the serial monitors.  One behaviour is one run of one script; `script`  *)
(* names it and never changes.                                             *)
(*                                                                         *)
(* Time is counted in ticks of 0.1 s, the period of the polling sleeps.    *)
(* time.sleep(0.1) lasts at least one tick; the ticks it lasts beyond that *)
(* are drawn nondeterministically, at most MaxOversleep per loop.          *)
(***************************************************************************)
EXTENDS Integers, Sequences, FiniteSets, TLC

VARIABLES
    script,      \* the script this run executes
    pc,          \* position in the script
    step,        \* position inside a multi-statement block (reset pulse, loops)
    gpio,        \* level of every output line: "HIGH", "LOW", or "Z" (not driven)
    log,         \* SPI transfers so far, run-length encoded
    rstLog,      \* writes to RST so far, each with the sleep that follows it
    wpc,         \* position inside _wait_until_idle: "idle", "poll", "sleep", "ret"
    timeout,     \* timeout_seconds of the running _wait_until_idle, in ticks
    elapsed,     \* time.time() - start_time of the running loop, in ticks
    nPolls,      \* samples of BUSY taken by the running loop
    sawLow,      \* whether a sample of the running loop read LOW
    waitRet,     \* value returned by the last _wait_until_idle ("none" before)
    y,           \* row counter of draw_test_pattern
    color,       \* colour code chosen for the last row sent
    pixel_data,  \* last value draw_test_pattern passed to _send_data
    exc,         \* exception that ended the run: "none", "Exception", "KeyboardInterrupt",
                 \* "AttributeError" (an Exception raised by a handler of fetch_flags.py)
    ret,         \* value returned by main(): "none", "True", "False"
    cleaned,     \* number of executions of the cleanup in the finally clause
    status,      \* process exit status, -1 while running
    results,     \* display_diagnostic main(): the results list
    outcomes,    \* display_diagnostic: what each test function called so far did
    out,         \* the verdict lines printed so far
    busy0,       \* display_diagnostic: initial_busy of the BUSY monitor
    api,         \* fetch_flags: the API response, per country
    files,       \* fetch_flags: server/flags, per country
    run,         \* fetch_flags: how many times the script has been started
    fetched,     \* fetch_flags: <<run, country>> whose flag was requested
    saved,       \* fetch_flags: <<run, country>> whose BMP the download path saved
    info,        \* fetch_flags: countries whose metadata JSON exists
    index_data,  \* fetch_flags: the list index_data
    indexFile,   \* fetch_flags: index.json: whether written, and its content
    cleanupCalls, \* the calls the cleanup code has attempted, in order
    timeouts,    \* number of _wait_until_idle calls that returned False
    current_busy \* display_diagnostic: the last sample of the BUSY monitor ("none" before)

vars == <<script, pc, step, gpio, log, rstLog, wpc, timeout, elapsed, nPolls,
          sawLow, waitRet, y, color, pixel_data, exc, ret, cleaned, status,
          results, outcomes, out, busy0, api, files, run, fetched, saved, info, index_data,
          indexFile, cleanupCalls, timeouts, current_busy>>

histVars == <<cleanupCalls, timeouts, current_busy>>
waitVars == <<wpc, timeout, elapsed, nPolls, sawLow, waitRet>>
drawVars == <<y, color, pixel_data>>
diagVars == <<results, outcomes, out, busy0>>
fetchVars == <<api, files, run, fetched, saved, info, index_data, indexFile>>

----------------------------------------------------------------------------
(* Program constants.                                                      *)

EPD_WIDTH == 1600
EPD_HEIGHT == 1200
TicksPerSecond == 10

(* Bounds of the model.                                                    *)
MaxOversleep == 2

Pins == {"RST", "DC", "CS", "CS_M", "CS_S"}

----------------------------------------------------------------------------
(* Integer helpers: Python's <<, | and & 0xff on non-negative ints.        *)

RECURSIVE Pow2(_)
Pow2(n) == IF n = 0 THEN 1 ELSE 2 * Pow2(n - 1)

ShiftLeft(a, n) == a * Pow2(n)

RECURSIVE BitOr(_, _)
BitOr(a, b) ==
    IF a = 0 THEN b
    ELSE IF b = 0 THEN a
    ELSE (IF a % 2 = 1 \/ b % 2 = 1 THEN 1 ELSE 0) + 2 * BitOr(a \div 2, b \div 2)

(* spidev stores each list element in a __u8: the wire carries the low 8 bits. *)
WireByte(v) == v % 256

Min(a, b) == IF a < b THEN a ELSE b

----------------------------------------------------------------------------
(* SPI log.  An entry is a run of n equal transfers: the byte, the level of
   DC and the chip-select lines held LOW while it was sent, and the caller of
   spi.xfer2 ("cmd": _send_command, "data": _send_data, "raw": a script
   calling spi.xfer2 itself).  *)

Selected(g) == {p \in {"CS", "CS_M", "CS_S"} : g[p] = "LOW"}

Xfer(l, byte, dc, kind, cs, n) ==
    IF n = 0 THEN l
    ELSE IF Len(l) > 0 /\ l[Len(l)].byte = byte /\ l[Len(l)].dc = dc
                       /\ l[Len(l)].kind = kind /\ l[Len(l)].cs = cs
         THEN [l EXCEPT ![Len(l)].n = @ + n]
         ELSE Append(l, [byte |-> byte, dc |-> dc, kind |-> kind, cs |-> cs, n |-> n])

(* The pin levels after GPIO.output(DC_PIN, level).  *)
DcOut(g, level) == [g EXCEPT !["DC"] = level]

(* _send_command: DC low, one transfer.  *)
SendCommand(command) ==
    LET g == DcOut(gpio, "LOW")
    IN /\ gpio' = g
       /\ log' = Xfer(log, WireByte(command), g["DC"], "cmd", Selected(g), 1)

(* one transfer for each element of `data`, the pins being at g.  *)
RECURSIVE XferAll(_, _, _, _)
XferAll(l, data, g, kind) ==
    IF data = <<>> THEN l
    ELSE XferAll(Xfer(l, WireByte(Head(data)), g["DC"], kind, Selected(g), 1),
                 Tail(data), g, kind)

(* _send_data without the write to DC.  *)
SendDataRun_KeepDC(v, n) ==
    /\ gpio' = gpio
    /\ log' = Xfer(log, WireByte(v), gpio["DC"], "data", Selected(gpio), n)

(* n calls of _send_data(v).  *)
SendDataRun(v, n) ==
    LET g == DcOut(gpio, "HIGH")
    IN /\ gpio' = g
       /\ log' = Xfer(log, WireByte(v), g["DC"], "data", Selected(g), n)

(* _send_command(command), then _send_data called once for each element of
   `data`.  *)
SendCommandData(command, data) ==
    LET gc == DcOut(gpio, "LOW")
        gd == IF data = <<>> THEN gc ELSE DcOut(gc, "HIGH")
    IN /\ gpio' = gd
       /\ log' = XferAll(Xfer(log, WireByte(command), gc["DC"], "cmd", Selected(gc), 1),
                         data, gd, "data")

(* GPIO.output(RST_PIN, level) followed by time.sleep(ms / 1000).  *)
RstOut(level, ms) ==
    /\ gpio' = [gpio EXCEPT !["RST"] = level]
    /\ rstLog' = Append(rstLog, <<level, ms>>)

(* GPIO.cleanup(): every channel goes back to input.  *)
Released == [p \in Pins |-> "Z"]

----------------------------------------------------------------------------
(* draw_test_pattern: the colour of a row and the value packed for it.     *)

rect_height == EPD_HEIGHT \div 6
pixels_per_byte == 4

(* RowColor with the stripe boundaries off by one row.  *)
RowColor_Inclusive(row) ==
    IF row <= rect_height THEN 0
    ELSE IF row <= rect_height * 2 THEN 1
    ELSE IF row <= rect_height * 3 THEN 2
    ELSE IF row <= rect_height * 4 THEN 3
    ELSE IF row <= rect_height * 5 THEN 4
    ELSE 5

RowColor(row) ==
    IF row < rect_height THEN 0
    ELSE IF row < rect_height * 2 THEN 1
    ELSE IF row < rect_height * 3 THEN 2
    ELSE IF row < rect_height * 4 THEN 3
    ELSE IF row < rect_height * 5 THEN 4
    ELSE 5

RECURSIVE PackFrom(_, _, _)
PackFrom(acc, c, p) ==
    IF p = pixels_per_byte THEN acc
    ELSE PackFrom(BitOr(acc, ShiftLeft(c, 6 - p * 2)), c, p + 1)

(* pixel_data for each colour code the pattern uses, computed once.  *)
PackTable == [c \in 0..5 |-> PackFrom(0, c, 0)]

PackPixels(c) == PackTable[c]

(* The 2-bit field of pixel k (0 = leftmost) of a byte on the wire.  *)
Field(b, k) == (b \div Pow2(6 - k * 2)) % 4

----------------------------------------------------------------------------
(* _wait_until_idle.                                                       *)

CallWait(seconds) ==
    /\ wpc' = "poll"
    /\ timeout' = seconds * TicksPerSecond
    /\ elapsed' = 0
    /\ nPolls' = 0
    /\ sawLow' = FALSE
    /\ waitRet' = "none"

Running == script = "epaper_test" /\ wpc \in {"poll", "sleep"}

(* while GPIO.input(BUSY_PIN) == GPIO.HIGH  *)
wait_poll ==
    /\ Running /\ wpc = "poll"
    /\ nPolls' = nPolls + 1
    /\ \E busy \in {"HIGH", "LOW"} :
         IF busy = "HIGH"
         THEN wpc' = "sleep" /\ UNCHANGED <<sawLow, waitRet>>
         ELSE wpc' = "ret" /\ sawLow' = TRUE /\ waitRet' = "True"
    /\ UNCHANGED <<script, pc, step, gpio, log, rstLog, timeout, elapsed,
                   drawVars, exc, ret, cleaned, histVars, status, diagVars, fetchVars>>

(* TimedOut comparing with >= , and TimedOut allowing twice the time.  *)
TimedOut_Inclusive(e, t) == e >= t
TimedOut_Late(e, t) == e > 2 * t

TimedOut(e, t) == e > t

(* time.sleep(0.1); if time.time() - start_time > timeout_seconds: return False *)
wait_sleep ==
    /\ Running /\ wpc = "sleep"
    /\ \E d \in 1..(1 + MaxOversleep) :
         /\ (elapsed + d) - nPolls <= MaxOversleep
         /\ elapsed' = elapsed + d
    /\ IF TimedOut(elapsed', timeout)
       THEN wpc' = "ret" /\ waitRet' = "False" /\ timeouts' = timeouts + 1
       ELSE wpc' = "poll" /\ UNCHANGED <<waitRet, timeouts>>
    /\ UNCHANGED <<script, pc, step, gpio, log, rstLog, timeout, nPolls, sawLow,
                   drawVars, exc, ret, cleaned, cleanupCalls, current_busy, status, diagVars,
                   fetchVars>>

----------------------------------------------------------------------------
(* epaper_test.py                                                          *)

Epd == script = "epaper_test"

NoWait == wpc' = "idle" /\ timeout' = 0 /\ elapsed' = 0 /\ nPolls' = 0
          /\ sawLow' = FALSE /\ waitRet' = "none"
NoDraw == y' = 0 /\ color' = 0 /\ pixel_data' = 0

(* epd = EPD_13in3_Spectra6(): spi.open may raise, outside main's try: the
   traceback of an Exception ends the process with status 1, a
   KeyboardInterrupt ends it the way SIGINT does (130).  *)
epd_construct ==
    /\ Epd /\ pc = "start"
    /\ \/ pc' = "init_gpio" /\ UNCHANGED <<exc, status>>
       \/ pc' = "done" /\ exc' = "Exception" /\ status' = 1
       \/ pc' = "done" /\ exc' = "KeyboardInterrupt" /\ status' = 130
    /\ UNCHANGED <<script, step, gpio, log, rstLog, waitVars, drawVars, ret, cleaned, histVars, diagVars, fetchVars>>

(* init(): GPIO.cleanup, GPIO.setup of the four pins, the three initial levels.  *)
epd_init_gpio ==
    /\ Epd /\ pc = "init_gpio"
    /\ gpio' = [Released EXCEPT !["CS"] = "HIGH", !["DC"] = "LOW", !["RST"] = "HIGH"]
    /\ rstLog' = Append(rstLog, <<"HIGH", 0>>)
    /\ pc' = "reset" /\ step' = 0
    /\ UNCHANGED <<script, log, waitVars, drawVars, exc, ret, cleaned, histVars, status, diagVars, fetchVars>>

(* _reset()  *)
epd_reset ==
    /\ Epd /\ pc = "reset"
    /\ \/ step = 0 /\ RstOut("HIGH", 200) /\ step' = 1 /\ pc' = pc
       \/ step = 1 /\ RstOut("LOW", 2) /\ step' = 2 /\ pc' = pc
       \/ step = 2 /\ RstOut("HIGH", 200) /\ step' = 0 /\ pc' = "power_on"
    /\ UNCHANGED <<script, log, waitVars, drawVars, exc, ret, cleaned, histVars, status, diagVars, fetchVars>>

(* init(): self._send_command(0x04); self._wait_until_idle(10)  *)
epd_power_on ==
    /\ Epd /\ pc = "power_on"
    /\ SendCommand(4)
    /\ CallWait(10)
    /\ pc' = "power_on_wait"
    /\ UNCHANGED <<script, step, rstLog, drawVars, exc, ret, cleaned, histVars, status, diagVars, fetchVars>>

(* init() going on to the panel setting whatever the power-on wait returned.  *)
epd_power_on_done_Ignored ==
    /\ Epd /\ pc = "power_on_wait" /\ wpc = "ret"
    /\ pc' = "panel"
    /\ NoWait
    /\ UNCHANGED <<script, step, gpio, log, rstLog, drawVars, exc, ret, cleaned, histVars,
                   status, diagVars, fetchVars>>

(* init(): if not self._wait_until_idle(10): return False; main: return False *)
epd_power_on_done ==
    /\ Epd /\ pc = "power_on_wait" /\ wpc = "ret"
    /\ IF waitRet = "True"
       THEN pc' = "panel" /\ UNCHANGED ret
       ELSE pc' = "finally" /\ ret' = "False"
    /\ NoWait
    /\ UNCHANGED <<script, step, gpio, log, rstLog, drawVars, exc, cleaned, histVars, status, diagVars, fetchVars>>

(* init(): panel setting 0x00 with its two data bytes.  *)
epd_panel ==
    /\ Epd /\ pc = "panel"
    /\ SendCommandData(0, <<47, 0>>)
    /\ pc' = "resolution"
    /\ UNCHANGED <<script, step, rstLog, waitVars, drawVars, exc, ret, cleaned, histVars, status, diagVars, fetchVars>>

(* init(): resolution setting 0x61 with width and height, high byte first.  *)
epd_resolution ==
    /\ Epd /\ pc = "resolution"
    /\ SendCommandData(97, <<EPD_WIDTH \div 256, EPD_WIDTH % 256,
                             EPD_HEIGHT \div 256, EPD_HEIGHT % 256>>)
    /\ pc' = "clear_tx1"
    /\ UNCHANGED <<script, step, rstLog, waitVars, drawVars, exc, ret, cleaned, histVars, status, diagVars, fetchVars>>

(* total_pixels without the division by the four pixels of a byte.  *)
total_pixels_Unpacked == EPD_WIDTH * EPD_HEIGHT

total_pixels == (EPD_WIDTH * EPD_HEIGHT) \div 4

(* clear(): command 0x10 or 0x13, then total_pixels times _send_data(0x11).  *)
ClearTransmission(command) ==
    LET gc == DcOut(gpio, "LOW")
        gd == DcOut(gc, "HIGH")
    IN /\ gpio' = gd
       /\ log' = Xfer(Xfer(log, WireByte(command), gc["DC"], "cmd", Selected(gc), 1),
                      WireByte(17), gd["DC"], "data", Selected(gd), total_pixels)

epd_clear ==
    /\ Epd
    /\ \/ pc = "clear_tx1" /\ ClearTransmission(16) /\ pc' = "clear_tx2"
       \/ pc = "clear_tx2" /\ ClearTransmission(19) /\ pc' = "clear_refresh"
    /\ UNCHANGED <<script, step, rstLog, waitVars, drawVars, exc, ret, cleaned, histVars, status, diagVars, fetchVars>>

(* _refresh(): command 0x12, time.sleep(0.1), _wait_until_idle(45).  *)
epd_refresh ==
    /\ Epd /\ pc \in {"clear_refresh", "draw_refresh"}
    /\ SendCommand(18)
    /\ CallWait(45)
    /\ pc' = IF pc = "clear_refresh" THEN "clear_wait" ELSE "draw_wait"
    /\ UNCHANGED <<script, step, rstLog, drawVars, exc, ret, cleaned, histVars, status, diagVars, fetchVars>>

(* _refresh() with a timeout treated like the one of init(): main returns
   False.  *)
epd_refresh_done_Fatal ==
    /\ Epd /\ pc \in {"clear_wait", "draw_wait"} /\ wpc = "ret"
    /\ IF waitRet = "True"
       THEN pc' = (IF pc = "clear_wait" THEN "draw_cmd1" ELSE "sleep_off") /\ UNCHANGED ret
       ELSE pc' = "finally" /\ ret' = "False"
    /\ NoWait
    /\ UNCHANGED <<script, step, gpio, log, rstLog, drawVars, exc, cleaned, histVars,
                   status, diagVars, fetchVars>>

(* _refresh() returns whatever the wait returned; the caller goes on.  *)
epd_refresh_done ==
    /\ Epd /\ pc \in {"clear_wait", "draw_wait"} /\ wpc = "ret"
    /\ pc' = IF pc = "clear_wait" THEN "draw_cmd1" ELSE "sleep_off"
    /\ NoWait
    /\ UNCHANGED <<script, step, gpio, log, rstLog, drawVars, exc, ret, cleaned, histVars, status, diagVars, fetchVars>>

(* draw_test_pattern(): the command that opens each transmission.  *)
epd_draw_cmd ==
    /\ Epd
    /\ \/ pc = "draw_cmd1" /\ SendCommand(16) /\ pc' = "draw_rows1"
       \/ pc = "draw_cmd2" /\ SendCommand(19) /\ pc' = "draw_rows2"
    /\ NoDraw
    /\ UNCHANGED <<script, step, rstLog, waitVars, exc, ret, cleaned, histVars, status, diagVars, fetchVars>>

BytesPerRow == (EPD_WIDTH + pixels_per_byte - 1) \div pixels_per_byte

(* draw_test_pattern(): one iteration of `for y`, i.e. the whole `for x` loop. *)
epd_draw_row ==
    /\ Epd /\ pc \in {"draw_rows1", "draw_rows2"} /\ y < EPD_HEIGHT
    /\ LET c == RowColor(y)
           v == PackPixels(c)
       IN /\ color' = c
          /\ pixel_data' = v
          /\ SendDataRun(v, BytesPerRow)
    /\ y' = y + 1
    /\ UNCHANGED <<script, pc, step, rstLog, waitVars, exc, ret, cleaned, histVars, status, diagVars, fetchVars>>

(* draw_test_pattern(): `for y` is exhausted.  *)
epd_draw_end ==
    /\ Epd /\ pc \in {"draw_rows1", "draw_rows2"} /\ y = EPD_HEIGHT
    /\ pc' = IF pc = "draw_rows1" THEN "draw_cmd2" ELSE "draw_refresh"
    /\ UNCHANGED <<script, step, gpio, log, rstLog, waitVars, drawVars, exc, ret,
                   cleaned, histVars, status, diagVars, fetchVars>>

(* sleep() sending deep sleep where power off belongs.  *)
epd_sleep_off_DeepFirst ==
    /\ Epd /\ pc = "sleep_off"
    /\ SendCommand(7)
    /\ CallWait(5)
    /\ pc' = "sleep_wait"
    /\ UNCHANGED <<script, step, rstLog, drawVars, exc, ret, cleaned, histVars, status, diagVars, fetchVars>>

(* sleep(): command 0x02 and _wait_until_idle(5), its result ignored.  *)
epd_sleep_off ==
    /\ Epd /\ pc = "sleep_off"
    /\ SendCommand(2)
    /\ CallWait(5)
    /\ pc' = "sleep_wait"
    /\ UNCHANGED <<script, step, rstLog, drawVars, exc, ret, cleaned, histVars, status, diagVars, fetchVars>>

(* sleep(): command 0x07 with data 0xA5; main: return True.  *)
epd_deep_sleep ==
    /\ Epd /\ pc = "sleep_wait" /\ wpc = "ret"
    /\ SendCommandData(7, <<165>>)
    /\ NoWait /\ NoDraw
    /\ ret' = "True"
    /\ pc' = "finally"
    /\ UNCHANGED <<script, step, rstLog, exc, cleaned, histVars, status, diagVars, fetchVars>>

EpdTryPcs == {"init_gpio", "reset", "power_on", "power_on_wait", "panel",
              "resolution", "clear_tx1", "clear_tx2", "clear_refresh", "clear_wait",
              "draw_cmd1", "draw_rows1", "draw_cmd2", "draw_rows2", "draw_refresh",
              "draw_wait", "sleep_off", "sleep_wait"}

(* main(): except KeyboardInterrupt / except Exception: return False.  *)
epd_raise ==
    /\ Epd /\ pc \in EpdTryPcs
    /\ \E e \in {"Exception", "KeyboardInterrupt"} : exc' = e
    /\ ret' = "False"
    /\ pc' = "finally" /\ step' = 0
    /\ NoWait /\ NoDraw
    /\ UNCHANGED <<script, gpio, log, rstLog, cleaned, histVars, status, diagVars, fetchVars>>

(* cleanup() with spi.close() outside a try: when it raises, GPIO.cleanup()
   is not reached.  *)
CleanupCalls_Unguarded(closeRaises) ==
    IF closeRaises THEN <<"spi.close">> ELSE <<"spi.close", "GPIO.cleanup">>

(* cleanup(): the calls it attempts.  Each sits in its own try with a bare
   except, so GPIO.cleanup() is attempted whether or not spi.close() raised.  *)
CleanupCalls(closeRaises) == <<"spi.close", "GPIO.cleanup">>

(* main(): finally: epd.cleanup().  Either call may raise; what it raises is
   swallowed.  The pins are released when GPIO.cleanup() ran to its end.  *)
epd_cleanup ==
    /\ Epd /\ pc = "finally"
    /\ \E closeRaises, cleanupRaises \in BOOLEAN :
         LET calls == CleanupCalls(closeRaises)
         IN /\ cleanupCalls' = cleanupCalls \o calls
            /\ gpio' = IF calls[Len(calls)] = "GPIO.cleanup" /\ ~cleanupRaises
                       THEN Released ELSE gpio
    /\ cleaned' = cleaned + 1
    /\ pc' = "exit"
    /\ UNCHANGED <<script, step, log, rstLog, waitVars, drawVars, exc, ret, status,
                   timeouts, current_busy, diagVars, fetchVars>>

(* sys.exit(success): True exits with 1, False with 0.  *)
epd_exit_Inverted ==
    /\ Epd /\ pc = "exit"
    /\ status' = IF ret = "True" THEN 1 ELSE 0
    /\ pc' = "done"
    /\ UNCHANGED <<script, step, gpio, log, rstLog, waitVars, drawVars, exc, ret, cleaned,
                   histVars, diagVars, fetchVars>>

(* sys.exit(0 if success else 1)  *)
epd_exit ==
    /\ Epd /\ pc = "exit"
    /\ status' = IF ret = "True" THEN 0 ELSE 1
    /\ pc' = "done"
    /\ UNCHANGED <<script, step, gpio, log, rstLog, waitVars, drawVars, exc, ret, cleaned, histVars, diagVars, fetchVars>>

----------------------------------------------------------------------------
(* display_diagnostic.py                                                   *)

Diag == script = "display_diagnostic"

MonitorSamples == 100

(* RunTest without the try/except around test_func(): an exception ends main. *)
RunTest_Uncaught(test_name, outcome, next) ==
    IF outcome \in {"KeyboardInterrupt", "Exception"}
    THEN /\ exc' = outcome /\ status' = 1 /\ pc' = "done"
         /\ outcomes' = Append(outcomes, outcome)
         /\ UNCHANGED results
    ELSE /\ results' = Append(results, <<test_name, outcome = "True">>)
         /\ outcomes' = Append(outcomes, outcome)
         /\ pc' = next
         /\ UNCHANGED <<exc, status>>

(* main(): one iteration of `for test_name, test_func in tests`.  `outcome` is
   what test_func() did: returned "True" or "False", raised an Exception, or was
   interrupted (KeyboardInterrupt is no Exception and leaves main).  *)
RunTest(test_name, outcome, next) ==
    IF outcome = "KeyboardInterrupt"
    THEN /\ exc' = outcome /\ status' = 130 /\ pc' = "done"
         /\ outcomes' = Append(outcomes, outcome)
         /\ UNCHANGED results
    ELSE /\ results' = Append(results, <<test_name, outcome = "True">>)
         /\ outcomes' = Append(outcomes, outcome)
         /\ pc' = next
         /\ UNCHANGED <<exc, status>>

Outcomes == {"True", "False", "Exception", "KeyboardInterrupt"}

(* check_hardware_info()  *)
diag_hardware_info ==
    /\ Diag /\ pc = "start"
    /\ \E o \in Outcomes : RunTest("Hardware Info", o, "gpio_test")
    /\ UNCHANGED <<script, step, gpio, log, rstLog, waitVars, drawVars, ret, cleaned, histVars,
                   out, busy0, fetchVars>>

GpioTestWrites == << <<"HIGH", 100>>, <<"LOW", 100>>, <<"HIGH", 0>> >>

(* test_gpio_connectivity(): the three writes to RST one by one, then the
   toggling of DC, the read of BUSY, return True and finally GPIO.cleanup().  *)
diag_gpio_connectivity ==
    /\ Diag /\ pc = "gpio_test"
    /\ \/ /\ step < Len(GpioTestWrites)
          /\ RstOut(GpioTestWrites[step + 1][1], GpioTestWrites[step + 1][2])
          /\ step' = step + 1
          /\ UNCHANGED <<pc, exc, status, results, outcomes>>
       \/ /\ step = Len(GpioTestWrites)
          /\ RunTest("GPIO Connectivity", "True", "spi_test")
          /\ gpio' = Released
          /\ step' = 0
          /\ UNCHANGED rstLog
    /\ UNCHANGED <<script, log, waitVars, drawVars, ret, cleaned, histVars, out, busy0, fetchVars>>

(* an exception inside test_gpio_connectivity: caught there (return False),
   raised by its finally clause, or a KeyboardInterrupt; GPIO.cleanup() runs.  *)
diag_gpio_raise ==
    /\ Diag /\ pc = "gpio_test"
    /\ \E o \in {"False", "Exception", "KeyboardInterrupt"} :
         RunTest("GPIO Connectivity", o, "spi_test")
    /\ gpio' = Released
    /\ step' = 0
    /\ UNCHANGED <<script, log, rstLog, waitVars, drawVars, ret, cleaned, histVars, out, busy0, fetchVars>>

(* test_spi_communication(): one transfer of four bytes, DC not driven.  *)
diag_spi_communication ==
    /\ Diag /\ pc = "spi_test"
    /\ \E o \in Outcomes :
         /\ log' = IF o = "True" THEN XferAll(log, <<0, 1, 2, 3>>, gpio, "raw") ELSE log
         /\ RunTest("SPI Communication", o, "d4_setup")
    /\ UNCHANGED <<script, step, gpio, rstLog, waitVars, drawVars, ret, cleaned, histVars,
                   out, busy0, fetchVars>>

(* test_display_reset_sequence(): GPIO.setup of the three pins, spi.open.  *)
diag_reset_setup ==
    /\ Diag /\ pc = "d4_setup"
    /\ pc' = "d4_reset" /\ step' = 0
    /\ UNCHANGED <<script, gpio, log, rstLog, waitVars, drawVars, exc, ret, cleaned, histVars,
                   status, diagVars, fetchVars>>

(* test_display_reset_sequence(): the reset sequence.  *)
diag_reset ==
    /\ Diag /\ pc = "d4_reset"
    /\ \/ step = 0 /\ RstOut("HIGH", 200) /\ step' = 1 /\ pc' = pc
       \/ step = 1 /\ RstOut("LOW", 2) /\ step' = 2 /\ pc' = pc
       \/ step = 2 /\ RstOut("HIGH", 200) /\ step' = 0 /\ pc' = "d4_power_on"
    /\ UNCHANGED <<script, log, waitVars, drawVars, exc, ret, cleaned, histVars, status, diagVars, fetchVars>>

(* test_display_reset_sequence(): command 0x04, then initial_busy is sampled.  *)
diag_power_on ==
    /\ Diag /\ pc = "d4_power_on"
    /\ LET g == DcOut(gpio, "LOW")
       IN /\ gpio' = g
          /\ log' = Xfer(log, 4, g["DC"], "raw", Selected(g), 1)
    /\ \E b \in {"HIGH", "LOW"} : busy0' = b
    /\ step' = 0
    /\ pc' = "d4_monitor"
    /\ UNCHANGED <<script, rstLog, waitVars, drawVars, exc, ret, cleaned, histVars, status,
                   results, outcomes, out, fetchVars>>

(* the monitor loop going on after a sample that differs from initial_busy.  *)
diag_monitor_NoBreak ==
    /\ Diag /\ pc = "d4_monitor" /\ step < MonitorSamples
    /\ \E sample \in {"HIGH", "LOW"} :
         /\ current_busy' = sample
         /\ pc' = pc /\ step' = step + 1
    /\ UNCHANGED <<script, gpio, log, rstLog, waitVars, drawVars, exc, ret, cleaned,
                   cleanupCalls, timeouts, status, diagVars, fetchVars>>

(* for i in range(100): one sample; break on a change, else sleep 0.1 s.
   step counts the samples that equalled initial_busy.  *)
diag_monitor ==
    /\ Diag /\ pc = "d4_monitor" /\ step < MonitorSamples
    /\ \E sample \in {"HIGH", "LOW"} :
         /\ current_busy' = sample
         /\ IF sample # busy0
            THEN pc' = "d4_finish" /\ step' = step
            ELSE pc' = pc /\ step' = step + 1
    /\ UNCHANGED <<script, gpio, log, rstLog, waitVars, drawVars, exc, ret, cleaned,
                   cleanupCalls, timeouts, status, diagVars, fetchVars>>

(* the else clause of the for loop.  *)
diag_monitor_else ==
    /\ Diag /\ pc = "d4_monitor" /\ step = MonitorSamples
    /\ out' = out \cup {"BUSY pin did not change state"}
    /\ pc' = "d4_finish"
    /\ UNCHANGED <<script, step, gpio, log, rstLog, waitVars, drawVars, exc, ret,
                   cleaned, histVars, status, results, outcomes, busy0, fetchVars>>

(* final sample, spi.close(), return True; finally GPIO.cleanup().  *)
diag_reset_finish ==
    /\ Diag /\ pc = "d4_finish"
    /\ RunTest("Display Reset Sequence", "True", "summary")
    /\ gpio' = Released
    /\ step' = 0 /\ busy0' = "LOW"
    /\ UNCHANGED <<script, log, rstLog, waitVars, drawVars, ret, cleaned, histVars, out, fetchVars>>

(* an exception inside test_display_reset_sequence: caught there (return False)
   unless it is a KeyboardInterrupt; finally GPIO.cleanup() either way.  *)
diag_reset_raise ==
    /\ Diag /\ pc \in {"d4_setup", "d4_reset", "d4_power_on", "d4_monitor", "d4_finish"}
    /\ \E o \in {"False", "Exception", "KeyboardInterrupt"} :
         RunTest("Display Reset Sequence", o, "summary")
    /\ gpio' = Released
    /\ step' = 0 /\ busy0' = "LOW"
    /\ UNCHANGED <<script, log, rstLog, waitVars, drawVars, ret, cleaned, histVars, out, fetchVars>>

AllPassed(rs) == \A i \in 1..Len(rs) : rs[i][2]

(* main(): the summary.  *)
diag_summary ==
    /\ Diag /\ pc = "summary"
    /\ out' = out \cup {IF AllPassed(results) THEN "All tests passed"
                                            ELSE "Some tests failed"}
    /\ pc' = "done" /\ status' = 0
    /\ UNCHANGED <<script, step, gpio, log, rstLog, waitVars, drawVars, exc, ret,
                   cleaned, histVars, results, outcomes, busy0, fetchVars>>

----------------------------------------------------------------------------
(* simple_test.py                                                          *)

Simple == script = "simple_test"

(* init_gpio()  *)
simple_init_gpio ==
    /\ Simple /\ pc = "start"
    /\ gpio' = [gpio EXCEPT !["RST"] = "HIGH", !["DC"] = "LOW",
                            !["CS_M"] = "HIGH", !["CS_S"] = "HIGH"]
    /\ rstLog' = Append(rstLog, <<"HIGH", 0>>)
    /\ pc' = "pins" /\ step' = 0
    /\ UNCHANGED <<script, log, waitVars, drawVars, exc, ret, cleaned, histVars, status, diagVars, fetchVars>>

(* test_pins ending the pulse without driving RST high again.  *)
simple_test_pins_NoRelease ==
    /\ Simple /\ pc = "pins"
    /\ \/ step = 0 /\ RstOut("HIGH", 200) /\ step' = 1 /\ pc' = pc
       \/ step = 1 /\ RstOut("LOW", 2) /\ step' = 2 /\ pc' = pc
       \/ step = 2 /\ RstOut("LOW", 200) /\ step' = 0 /\ pc' = "spi"
    /\ UNCHANGED <<script, log, waitVars, drawVars, exc, ret, cleaned, histVars, status, diagVars, fetchVars>>

(* test_pins(): the reset sequence between two reads of BUSY.  *)
simple_test_pins ==
    /\ Simple /\ pc = "pins"
    /\ \/ step = 0 /\ RstOut("HIGH", 200) /\ step' = 1 /\ pc' = pc
       \/ step = 1 /\ RstOut("LOW", 2) /\ step' = 2 /\ pc' = pc
       \/ step = 2 /\ RstOut("HIGH", 200) /\ step' = 0 /\ pc' = "spi"
    /\ UNCHANGED <<script, log, waitVars, drawVars, exc, ret, cleaned, histVars, status, diagVars, fetchVars>>

(* test_spi_communication() without the deselect of the master.  *)
simple_spi_NoDeselect ==
    /\ Simple /\ pc = "spi"
    /\ \/ step = 0 /\ UNCHANGED <<gpio, log>>                      \* spi.open
       \/ step = 1 /\ gpio' = [gpio EXCEPT !["CS_M"] = "LOW"] /\ UNCHANGED log
       \/ step = 2 /\ gpio' = [gpio EXCEPT !["CS_S"] = "HIGH"] /\ UNCHANGED log
       \/ step = 3 /\ gpio' = [gpio EXCEPT !["DC"] = "LOW"] /\ UNCHANGED log
       \/ step = 4 /\ log' = Xfer(log, 4, gpio["DC"], "raw", Selected(gpio), 1) /\ UNCHANGED gpio
       \/ step = 5 /\ UNCHANGED <<gpio, log>>
       \/ step = 6 /\ gpio' = [gpio EXCEPT !["CS_S"] = "LOW"] /\ UNCHANGED log
       \/ step = 7 /\ gpio' = [gpio EXCEPT !["CS_M"] = "HIGH"] /\ UNCHANGED log
       \/ step = 8 /\ log' = Xfer(log, 4, gpio["DC"], "raw", Selected(gpio), 1) /\ UNCHANGED gpio
       \/ step = 9 /\ gpio' = [gpio EXCEPT !["CS_S"] = "HIGH"] /\ UNCHANGED log
    /\ IF step = 9
       THEN step' = 0 /\ pc' = "finally" /\ out' = out \cup {"SPI test passed"}
       ELSE step' = step + 1 /\ pc' = pc /\ UNCHANGED out
    /\ UNCHANGED <<script, rstLog, waitVars, drawVars, exc, ret, cleaned, histVars, status,
                   results, outcomes, busy0, fetchVars>>

(* test_spi_communication(), statement by statement.  *)
simple_spi ==
    /\ Simple /\ pc = "spi"
    /\ \/ step = 0 /\ UNCHANGED <<gpio, log>>                      \* spi.open
       \/ step = 1 /\ gpio' = [gpio EXCEPT !["CS_M"] = "LOW"] /\ UNCHANGED log
       \/ step = 2 /\ gpio' = [gpio EXCEPT !["CS_S"] = "HIGH"] /\ UNCHANGED log
       \/ step = 3 /\ gpio' = [gpio EXCEPT !["DC"] = "LOW"] /\ UNCHANGED log
       \/ step = 4 /\ log' = Xfer(log, 4, gpio["DC"], "raw", Selected(gpio), 1) /\ UNCHANGED gpio
       \/ step = 5 /\ gpio' = [gpio EXCEPT !["CS_M"] = "HIGH"] /\ UNCHANGED log
       \/ step = 6 /\ gpio' = [gpio EXCEPT !["CS_S"] = "LOW"] /\ UNCHANGED log
       \/ step = 7 /\ gpio' = [gpio EXCEPT !["CS_M"] = "HIGH"] /\ UNCHANGED log
       \/ step = 8 /\ log' = Xfer(log, 4, gpio["DC"], "raw", Selected(gpio), 1) /\ UNCHANGED gpio
       \/ step = 9 /\ gpio' = [gpio EXCEPT !["CS_S"] = "HIGH"] /\ UNCHANGED log
    /\ IF step = 9
       THEN step' = 0 /\ pc' = "finally" /\ out' = out \cup {"SPI test passed"}
       ELSE step' = step + 1 /\ pc' = pc /\ UNCHANGED out
    /\ UNCHANGED <<script, rstLog, waitVars, drawVars, exc, ret, cleaned, histVars, status,
                   results, outcomes, busy0, fetchVars>>

(* an Exception inside test_spi_communication reaching main's handler.  *)
simple_spi_fail_Escapes ==
    /\ Simple /\ pc = "spi"
    /\ out' = out \cup {"SPI test failed"}
    /\ exc' = "Exception" /\ ret' = "False"
    /\ step' = 0 /\ pc' = "finally"
    /\ UNCHANGED <<script, gpio, log, rstLog, waitVars, drawVars, cleaned, histVars,
                   status, results, outcomes, busy0, fetchVars>>

(* an Exception inside test_spi_communication is caught there: return False.  *)
simple_spi_fail ==
    /\ Simple /\ pc = "spi"
    /\ out' = out \cup {"SPI test failed"}
    /\ step' = 0 /\ pc' = "finally"
    /\ UNCHANGED <<script, gpio, log, rstLog, waitVars, drawVars, exc, ret, cleaned, histVars,
                   status, results, outcomes, busy0, fetchVars>>

(* main(): an Exception from init_gpio or test_pins (return False), or a
   KeyboardInterrupt from anywhere in the try, which only the finally sees.  *)
simple_raise ==
    /\ Simple
    /\ \/ pc \in {"start", "pins"} /\ exc' = "Exception" /\ ret' = "False"
       \/ pc \in {"start", "pins", "spi"} /\ exc' = "KeyboardInterrupt" /\ UNCHANGED ret
    /\ step' = 0 /\ pc' = "finally"
    /\ UNCHANGED <<script, gpio, log, rstLog, waitVars, drawVars, cleaned, histVars, status,
                   diagVars, fetchVars>>

(* main(): finally GPIO.cleanup(); then return True unless the try returned.  *)
simple_cleanup ==
    /\ Simple /\ pc = "finally"
    /\ gpio' = Released
    /\ cleaned' = cleaned + 1
    /\ cleanupCalls' = Append(cleanupCalls, "GPIO.cleanup")
    /\ ret' = IF exc = "none" THEN "True" ELSE ret
    /\ pc' = "exit"
    /\ UNCHANGED <<script, step, log, rstLog, waitVars, drawVars, exc, status, timeouts,
                   current_busy,
                   diagVars, fetchVars>>

(* sys.exit(0 if success else 1); an uncaught KeyboardInterrupt ends the process.  *)
simple_exit ==
    /\ Simple /\ pc = "exit"
    /\ status' = IF exc = "KeyboardInterrupt" THEN 130 ELSE IF ret = "True" THEN 0 ELSE 1
    /\ pc' = "done"
    /\ UNCHANGED <<script, step, gpio, log, rstLog, waitVars, drawVars, exc, ret,
                   cleaned, histVars, diagVars, fetchVars>>

----------------------------------------------------------------------------
(* monitor.py, check_status.py, long_monitor.py, quick_check.py             *)

ReadlineTicks == 20

(* serial.Serial(...): opens the port or raises; `handled` tells whether the
   script catches the exception (exit status 0) or dies of it (1).  *)
SerialOpen(handled) ==
    /\ pc = "start"
    /\ \/ pc' = "loop" /\ UNCHANGED <<exc, status>>
       \/ pc' = "done" /\ exc' = "Exception" /\ status' = IF handled THEN 0 ELSE 1
    /\ step' = 0 /\ elapsed' = 0
    /\ UNCHANGED <<script, gpio, log, rstLog, wpc, timeout, nPolls, sawLow, waitRet,
                   drawVars, ret, cleaned, histVars, diagVars, fetchVars>>

(* the script ends: caught exceptions and normal ends exit 0, an uncaught
   Exception exits 1, an uncaught KeyboardInterrupt 130.  *)
SerialEnd(e, code) ==
    /\ pc = "loop"
    /\ exc' = e /\ status' = code /\ pc' = "done"
    /\ UNCHANGED <<script, step, gpio, log, rstLog, waitVars, drawVars, ret, cleaned, histVars,
                   diagVars, fetchVars>>

(* monitor.py: `while True`: the body up to the sleep, then time.sleep(0.1).  *)
monitor_open == script = "monitor" /\ SerialOpen(TRUE)

monitor_loop ==
    /\ script = "monitor" /\ pc = "loop"
    /\ \/ step = 0 /\ step' = 1
       \/ step = 1 /\ step' = 0
    /\ UNCHANGED <<script, pc, gpio, log, rstLog, waitVars, drawVars, exc, ret, cleaned, histVars,
                   status, diagVars, fetchVars>>

monitor_stop ==
    /\ script = "monitor"
    /\ \E e \in {"Exception", "KeyboardInterrupt"} : SerialEnd(e, 0)

Window(s) == IF s = "check_status" THEN 15 ELSE 60

InWindow(e, seconds) == e < seconds * TicksPerSecond

(* check_status.py and long_monitor.py: `while time.time() - start_time < N`:
   an iteration reads a line if one waits (up to the 2 s serial timeout) and
   sleeps 0.1 s; the loop ends with ser.close().  *)
window_open == script \in {"check_status", "long_monitor"} /\ SerialOpen(TRUE)

(* window_loop with `while True` in place of the deadline.  *)
window_loop_NoDeadline ==
    /\ script \in {"check_status", "long_monitor"} /\ pc = "loop"
    /\ \/ step = 0 /\ step' = 1
       \/ step = 1 /\ step' = 0
    /\ UNCHANGED <<script, pc, gpio, log, rstLog, waitVars, drawVars, exc, ret, cleaned, histVars,
                   status, diagVars, fetchVars>>

window_loop ==
    /\ script \in {"check_status", "long_monitor"} /\ pc = "loop"
    /\ IF InWindow(elapsed, Window(script))
       THEN /\ \E d \in 1..(1 + ReadlineTicks + MaxOversleep) : elapsed' = elapsed + d
            /\ UNCHANGED <<pc, status>>
       ELSE /\ pc' = "done" /\ status' = 0
            /\ UNCHANGED elapsed
    /\ UNCHANGED <<script, step, gpio, log, rstLog, wpc, timeout, nPolls, sawLow,
                   waitRet, drawVars, exc, ret, cleaned, histVars, diagVars, fetchVars>>

(* a KeyboardInterrupt or a SerialException is caught (status 0); any other
   Exception is not (status 1).  *)
window_stop ==
    /\ script \in {"check_status", "long_monitor"}
    /\ \/ SerialEnd("KeyboardInterrupt", 0)
       \/ SerialEnd("Exception", 0)
       \/ SerialEnd("Exception", 1)

QuickIterations == 30

(* quick_check.py: `for i in range(30)`, then ser.close().  *)
quick_open == script = "quick_check" /\ SerialOpen(TRUE)

quick_loop ==
    /\ script = "quick_check" /\ pc = "loop"
    /\ IF step < QuickIterations
       THEN step' = step + 1 /\ UNCHANGED <<pc, status>>
       ELSE pc' = "done" /\ status' = 0 /\ UNCHANGED step
    /\ UNCHANGED <<script, gpio, log, rstLog, waitVars, drawVars, exc, ret, cleaned, histVars,
                   diagVars, fetchVars>>

quick_stop ==
    /\ script = "quick_check"
    /\ \/ SerialEnd("Exception", 0)
       \/ SerialEnd("KeyboardInterrupt", 130)

----------------------------------------------------------------------------
(* fetch_flags.py                                                          *)

Fetch == script = "fetch_flags"

screen_width == 800
screen_height == 480
MaxRuns == 2

(* The countries of the API response, in response order.  *)
Countries == <<"japan", "france">>
CountrySet == {Countries[i] : i \in 1..Len(Countries)}

(* Non-white pixels of a flag on the 800x480 canvas: just under and at half.  *)
InkLevels == {(screen_width * screen_height) \div 2 - 1, (screen_width * screen_height) \div 2}

Absent == [kind |-> "absent", w |-> 0, h |-> 0, ink |-> 0]
Corrupt == [kind |-> "corrupt", w |-> 0, h |-> 0, ink |-> 0]
Bmp(w, h, ink) == [kind |-> "bmp", w |-> w, h |-> h, ink |-> ink]

FileStates == {Absent, Corrupt, Bmp(640, screen_height, (screen_width * screen_height) \div 2)}
              \cup {Bmp(screen_width, screen_height, k) : k \in InkLevels}

(* The validation with a flag that covers exactly half the canvas rejected.  *)
FlagNeedsUpdate_AtMostHalf(f) ==
    IF f.kind = "absent" THEN TRUE
    ELSE IF f.kind = "corrupt" THEN TRUE
    ELSE IF f.w # screen_width \/ f.h # screen_height THEN TRUE
    ELSE 2 * f.ink <= f.w * f.h

(* The validation of an existing BMP: flag_needs_update.  *)
FlagNeedsUpdate(f) ==
    IF f.kind = "absent" THEN TRUE
    ELSE IF f.kind = "corrupt" THEN TRUE
    ELSE IF f.w # screen_width \/ f.h # screen_height THEN TRUE
    ELSE 2 * f.ink < f.w * f.h

(* canvas.save: the flag pasted on a white screen_width x screen_height canvas. *)
SavedCanvas(ink) == Bmp(screen_width, screen_height, ink)

(* The fields of one country of the response, as lines 35-49 read them:
   all readable; "capital" an empty list (IndexError at line 40); "name"
   present but not an object, null or "" (AttributeError at line 35).  *)
FieldStates == {"ok", "no_capital", "null_name"}

FieldsOk(c) == api[c].fields = "ok"

(* requests.get(REST_COUNTRIES_API); raise_for_status; response.json()  *)
fetch_api ==
    /\ Fetch /\ pc = "start"
    /\ \/ pc' = "countries" /\ step' = 1 /\ UNCHANGED <<exc, status>>
       \/ pc' = "done" /\ step' = 0 /\ exc' = "Exception" /\ status' = 0
    /\ index_data' = <<>>
    /\ UNCHANGED <<script, gpio, log, rstLog, waitVars, drawVars, ret, cleaned, histVars, diagVars,
                   api, files, run, fetched, saved, info, indexFile>>

(* one iteration of `for country in countries`, with its try/except.  The
   handler at line 131 evaluates country.get('name', {}).get(...) again: when
   "name" is not an object it raises the AttributeError a second time, which
   only the outer handler (line 138) catches, after the loop is left.  *)
fetch_country ==
    /\ Fetch /\ pc = "countries" /\ step <= Len(Countries)
    /\ LET c == Countries[step]
           need == FlagNeedsUpdate(files[c])
       IN IF api[c].fields = "null_name"
          THEN /\ pc' = "done" /\ step' = 0
               /\ exc' = "AttributeError" /\ status' = 0
               /\ UNCHANGED <<files, fetched, saved, info, index_data>>
          ELSE /\ \E download \in {"ok", "fail"} :
                    /\ fetched' = IF FieldsOk(c) /\ need THEN fetched \cup {<<run, c>>}
                                                         ELSE fetched
                    /\ IF FieldsOk(c) /\ need /\ download = "ok"
                       THEN /\ files' = [files EXCEPT ![c] = SavedCanvas(api[c].ink)]
                            /\ saved' = saved \cup {<<run, c>>}
                       ELSE UNCHANGED <<files, saved>>
                    /\ IF FieldsOk(c) /\ (need => download = "ok")
                       THEN /\ info' = info \cup {c}
                            /\ index_data' = Append(index_data, c)
                       ELSE UNCHANGED <<info, index_data>>
               /\ step' = step + 1
               /\ UNCHANGED <<pc, exc, status>>
    /\ UNCHANGED <<script, gpio, log, rstLog, waitVars, drawVars, ret, cleaned, histVars,
                   diagVars, api, run, indexFile>>

(* json.dump(index_data, index_file) after the loop.  *)
fetch_index ==
    /\ Fetch /\ pc = "countries" /\ step = Len(Countries) + 1
    /\ indexFile' = [written |-> TRUE, content |-> index_data]
    /\ pc' = "done" /\ step' = 0 /\ status' = 0
    /\ UNCHANGED <<script, gpio, log, rstLog, waitVars, drawVars, exc, ret, cleaned, histVars,
                   diagVars, api, files, run, fetched, saved, info, index_data>>

(* a KeyboardInterrupt is caught nowhere.  *)
fetch_interrupt ==
    /\ Fetch /\ pc \in {"start", "countries"}
    /\ exc' = "KeyboardInterrupt" /\ status' = 130
    /\ pc' = "done" /\ step' = 0
    /\ UNCHANGED <<script, gpio, log, rstLog, waitVars, drawVars, ret, cleaned, histVars, diagVars,
                   fetchVars>>

(* the script is started again, against the same API response and directory. *)
fetch_again ==
    /\ Fetch /\ pc = "done" /\ run < MaxRuns
    /\ run' = run + 1
    /\ pc' = "start" /\ exc' = "none" /\ status' = -1
    /\ UNCHANGED <<script, step, gpio, log, rstLog, waitVars, drawVars, ret, cleaned, histVars,
                   diagVars, api, files, fetched, saved, info, index_data, indexFile>>

----------------------------------------------------------------------------
Scripts == {"epaper_test", "display_diagnostic", "simple_test", "fetch_flags",
            "monitor", "check_status", "long_monitor", "quick_check"}

Init ==
    /\ script \in Scripts
    /\ pc = "start" /\ step = 0
    /\ gpio = Released
    /\ log = <<>> /\ rstLog = <<>>
    /\ wpc = "idle" /\ timeout = 0 /\ elapsed = 0 /\ nPolls = 0
    /\ sawLow = FALSE /\ waitRet = "none"
    /\ y = 0 /\ color = 0 /\ pixel_data = 0
    /\ exc = "none" /\ ret = "none" /\ cleaned = 0 /\ status = -1
    /\ results = <<>> /\ outcomes = <<>> /\ out = {} /\ busy0 = "LOW"
    /\ api \in [CountrySet -> [ink : InkLevels, fields : FieldStates]]
    /\ files \in [CountrySet -> FileStates]
    /\ script # "fetch_flags" =>
          /\ api = [c \in CountrySet |-> [ink |-> (screen_width * screen_height) \div 2,
                                          fields |-> "ok"]]
          /\ files = [c \in CountrySet |-> Absent]
    /\ run = 1 /\ fetched = {} /\ saved = {} /\ info = {}
    /\ index_data = <<>> /\ indexFile = [written |-> FALSE, content |-> <<>>]
    /\ cleanupCalls = <<>> /\ timeouts = 0 /\ current_busy = "none"

Next ==
    \/ epd_construct \/ epd_init_gpio \/ epd_reset \/ epd_power_on
    \/ wait_poll \/ wait_sleep
    \/ epd_power_on_done \/ epd_panel \/ epd_resolution \/ epd_clear
    \/ epd_refresh \/ epd_refresh_done \/ epd_draw_cmd \/ epd_draw_row
    \/ epd_draw_end \/ epd_sleep_off \/ epd_deep_sleep
    \/ epd_raise \/ epd_cleanup \/ epd_exit
    \/ diag_hardware_info \/ diag_gpio_connectivity \/ diag_gpio_raise
    \/ diag_spi_communication
    \/ diag_reset_setup \/ diag_reset \/ diag_power_on \/ diag_monitor
    \/ diag_monitor_else \/ diag_reset_finish \/ diag_reset_raise \/ diag_summary
    \/ simple_init_gpio \/ simple_test_pins \/ simple_spi \/ simple_spi_fail
    \/ simple_raise \/ simple_cleanup \/ simple_exit
    \/ monitor_open \/ monitor_loop \/ monitor_stop
    \/ window_open \/ window_loop \/ window_stop
    \/ quick_open \/ quick_loop \/ quick_stop
    \/ fetch_api \/ fetch_country \/ fetch_index \/ fetch_interrupt \/ fetch_again

Spec == Init /\ [][Next]_vars

(* The program keeps running: some step is taken whenever one is possible.
   Nothing obliges the user to interrupt or the hardware to fail.  *)
FairSpec == Spec /\ WF_vars(Next)

----------------------------------------------------------------------------
(* Reading the SPI log.                                                    *)

RECURSIVE Repeat(_, _)
Repeat(b, n) == IF n = 0 THEN <<>> ELSE <<b>> \o Repeat(b, n - 1)

(* The command bytes of a log, in order: the transfers made with DC low.  *)
RECURSIVE Cmds(_)
Cmds(l) ==
    IF l = <<>> THEN <<>>
    ELSE IF Head(l).dc = "LOW" THEN Repeat(Head(l).byte, Head(l).n) \o Cmds(Tail(l))
    ELSE Cmds(Tail(l))

IsPrefix(a, b) == Len(a) <= Len(b) /\ a = SubSeq(b, 1, Len(a))

LastN(q, n) == SubSeq(q, Len(q) - n + 1, Len(q))

Count(q, v) == Cardinality({i \in 1..Len(q) : q[i] = v})

ResetSeq == << <<"HIGH", 200>>, <<"LOW", 2>>, <<"HIGH", 200>> >>

ResetComplete == Len(rstLog) >= 3 /\ LastN(rstLog, 3) = ResetSeq

DrawingRows == Epd /\ pc \in {"draw_rows1", "draw_rows2"} /\ y > 0

----------------------------------------------------------------------------
(* The commands of a complete run of epaper_test.py, in order.  *)
ExpectedCommands == <<4, 0, 97, 16, 19, 18, 16, 19, 18, 2, 7>>

(* C1: in epaper_test.py the commands are issued in the fixed order power on
   0x04, panel setting 0x00, resolution 0x61, then twice (clear, test pattern)
   0x10, 0x13, 0x12, then power off 0x02 and deep sleep 0x07.  The commands of
   any run are a prefix of that list, so no transmission or refresh precedes
   the resolution command and nothing follows 0x07; the reset pulse precedes
   the first command; 0x10 and 0x13 are each followed by data; a run in which
   main returns True issued the whole list and ended with 0x07 and its data
   byte 0xA5.  *)
C1_CommandOrder ==
    Epd =>
      /\ IsPrefix(Cmds(log), ExpectedCommands)
      /\ log # <<>> => rstLog = <<<<"HIGH", 0>>>> \o ResetSeq
      /\ \A i \in 1..(Len(log) - 1) :
           (log[i].dc = "LOW" /\ log[i].byte \in {16, 19}) => log[i + 1].dc = "HIGH"
      /\ ret = "True" =>
           /\ Cmds(log) = ExpectedCommands
           /\ LET cmd == log[Len(log) - 1]
                  dat == log[Len(log)]
              IN /\ cmd.byte = 7 /\ cmd.dc = "LOW" /\ cmd.n = 1
                 /\ dat.byte = 165 /\ dat.dc = "HIGH" /\ dat.n = 1

C1_Witness ==
    Epd /\ pc = "done" /\ ret = "True" /\ exc = "none" /\ Cmds(log) = ExpectedCommands

(* C2: every value draw_test_pattern passes to _send_data is a single byte.  *)
C2_SingleByte == DrawingRows => pixel_data \in 0..255

(* C3: the packing is lossless: the byte on the wire for a row holds the row's
   colour code in each of its four 2-bit fields, and two different colours of
   the rows sent so far never give the same byte.  *)
C3_Lossless ==
    DrawingRows =>
      /\ \A k \in 0..(pixels_per_byte - 1) : Field(WireByte(pixel_data), k) = color
      /\ \A c1, c2 \in {RowColor(r) : r \in 0..(y - 1)} :
           c1 # c2 => WireByte(PackPixels(c1)) # WireByte(PackPixels(c2))

(* C4: the colour code of row y is floor(y / (EPD_HEIGHT // 6)) capped at 5,
   so the rows form six stripes, top to bottom 0..5, and when a transmission
   of the pattern is complete each stripe was sent as 200 rows.  *)
C4_Stripes ==
    /\ DrawingRows => color = Min((y - 1) \div (EPD_HEIGHT \div 6), 5)
    /\ (Epd /\ pc \in {"draw_cmd2", "draw_refresh"}) =>
         /\ Len(log) >= 6
         /\ \A i \in 1..6 : /\ log[Len(log) - 6 + i].dc = "HIGH"
                            /\ log[Len(log) - 6 + i].n = 200 * BytesPerRow
                            /\ log[Len(log) - 6 + i].byte = WireByte(PackPixels(i - 1))

C4_Witness == Epd /\ pc = "draw_refresh" /\ y = EPD_HEIGHT /\ color = 5

----------------------------------------------------------------------------
C6_WaitResult ==
    (Epd /\ wpc = "ret") =>
      /\ waitRet \in {"True", "False"}
      /\ waitRet = "True" <=> sawLow
      /\ waitRet = "False" => (~sawLow /\ elapsed > timeout)
      /\ (sawLow /\ nPolls = 1) => (waitRet = "True" /\ elapsed = 0)

C6_Witness ==
    Epd /\ pc = "clear_wait" /\ wpc = "ret" /\ waitRet = "False" /\ ~sawLow
    /\ elapsed = 45 * TicksPerSecond + 1

(* The safety half of C7: with BUSY high at every sample _wait_until_idle
   polls at most timeout_seconds / 0.1 + 1 times and returns False; a command
   that is followed by a wait is sent once per call, never again after a
   timeout.  *)
C7_PollsBounded ==
    Epd =>
      /\ wpc \in {"poll", "sleep", "ret"} =>
           /\ timeout \in {10 * TicksPerSecond, 45 * TicksPerSecond, 5 * TicksPerSecond}
           /\ nPolls <= timeout + 1
      /\ (wpc = "ret" /\ ~sawLow) => waitRet = "False"
      /\ \A i \in 1..Len(log) : log[i].dc = "LOW" => log[i].n = 1
      /\ Count(Cmds(log), 4) <= 1 /\ Count(Cmds(log), 2) <= 1
      /\ Count(Cmds(log), 18) <= 2

(* C7: every call of _wait_until_idle returns, the bounds of C7_PollsBounded
   holding throughout.  *)
C7_WaitReturns ==
    /\ []C7_PollsBounded
    /\ (Epd /\ wpc = "poll") ~> (wpc \in {"ret", "idle"})

C7_Witness ==
    Epd /\ pc = "power_on_wait" /\ wpc = "ret" /\ waitRet = "False"
    /\ nPolls = 10 * TicksPerSecond + 1

(* The names of the four checks, and the names recorded in results.  *)
DiagNames == <<"Hardware Info", "GPIO Connectivity", "SPI Communication",
               "Display Reset Sequence">>

ResultNames == [i \in 1..Len(results) |-> results[i][1]]

(* C8 as stated: main() always ends with the four results in order and prints
   'All tests passed' exactly when all four are True.  *)
C8_AlwaysFourResults ==
    (Diag /\ pc = "done") =>
      /\ ResultNames = DiagNames
      /\ "All tests passed" \in out <=> AllPassed(results)

(* C8 as amended: unless a KeyboardInterrupt ends main, it runs the four
   checks in order; a check that returns False or raises an Exception is
   recorded as FAILED and the next check still runs; the run ends with four
   results and prints 'All tests passed' exactly when all four are True.  A
   KeyboardInterrupt ends main at once, with no summary.  *)
C8_FourResultsUnlessInterrupted ==
    Diag =>
      /\ IsPrefix(ResultNames, DiagNames)
      /\ \A i \in 1..Len(results) : results[i][2] <=> outcomes[i] = "True"
      /\ (pc = "done" /\ exc # "KeyboardInterrupt") =>
           /\ ResultNames = DiagNames
           /\ "All tests passed" \in out <=> AllPassed(results)
           /\ "Some tests failed" \in out <=> ~AllPassed(results)
      /\ exc = "KeyboardInterrupt" =>
           /\ Len(results) < Len(DiagNames)
           /\ out \cap {"All tests passed", "Some tests failed"} = {}

C8_Witness ==
    Diag /\ pc = "done" /\ Len(results) = 4 /\ outcomes[2] = "Exception"
    /\ outcomes[3] = "False" /\ results[4][2] /\ "Some tests failed" \in out

(* C9: a second run downloads no flag whose BMP the run before it saved.  *)
C9_SavedFlagNotFetchedAgain ==
    \A c \in CountrySet, r \in 1..(MaxRuns - 1) :
        <<r, c>> \in saved => <<r + 1, c>> \notin fetched

(* The positions inside the reset sequence, and between its end and the
   GPIO cleanup.  *)
InReset == (Epd /\ pc = "reset") \/ (Diag /\ pc = "d4_reset") \/ (Simple /\ pc = "pins")

AfterReset ==
    \/ Epd /\ pc \in EpdTryPcs \ {"init_gpio", "reset"}
    \/ Diag /\ pc \in {"d4_power_on", "d4_monitor", "d4_finish"}
    \/ Simple /\ pc = "spi"

(* C10: epaper_test._reset, display_diagnostic.test_display_reset_sequence
   and simple_test.test_pins drive the same sequence on RST: HIGH for 0.2 s,
   LOW for 0.002 s, HIGH for 0.2 s.  Outside test_gpio_connectivity, which
   toggles RST on its own before the diagnostic's reset, RST is LOW only by
   the pulse (after the first HIGH of the sequence, until its last write or
   an exception ends the function); it is HIGH when the sequence ends and
   HIGH from then until GPIO cleanup.  *)
C10_SameResetSequence ==
    /\ InReset => /\ LastN(rstLog, step) = SubSeq(ResetSeq, 1, step)
                  /\ gpio["RST"] = "LOW" <=> step = 2
    /\ AfterReset => ResetComplete /\ gpio["RST"] = "HIGH"
    /\ (script \in {"epaper_test", "simple_test"} /\ pc = "finally" /\ ResetComplete)
         => gpio["RST"] = "HIGH"
    /\ (gpio["RST"] = "LOW" /\ ~(Diag /\ pc = "gpio_test")) =>
         (Len(rstLog) >= 2 /\ LastN(rstLog, 2) = SubSeq(ResetSeq, 1, 2))

C10_Witness ==
    Diag /\ pc = "d4_monitor" /\ ResetComplete /\ gpio["RST"] = "HIGH"
    /\ Len(rstLog) = 6

----------------------------------------------------------------------------
(* C11: clear() clears to white: every data byte of its two transmissions is
   the byte draw_test_pattern sends for a row of the white stripe, the colour
   code 0x1 in each of the four 2-bit fields.  *)
C11_ClearSendsWhite ==
    (Epd /\ pc \in {"clear_tx2", "clear_refresh"}) =>
      LET sent == log[Len(log)]
      IN /\ sent.kind = "data" /\ sent.n = total_pixels
         /\ sent.byte = WireByte(PackPixels(1))
         /\ \A k \in 0..(pixels_per_byte - 1) : Field(sent.byte, k) = 1

(* C12 as stated: epaper_test.py exits with status 0 exactly when init()
   returned True and clear(), draw_test_pattern() and sleep() completed, and
   with status 1 in every other case, user interrupts included.  *)
C12_ExitZeroOrOne ==
    (Epd /\ pc = "done") =>
      /\ status \in {0, 1}
      /\ status = 0 <=> (ret = "True" /\ exc = "none")

(* C12 as amended: the exit status is 0 exactly when main returned True,
   which it does only after init() returned True and clear(),
   draw_test_pattern() and sleep() completed with no exception; once the EPD
   object is constructed every other run (init failure, exception, interrupt)
   exits with 1.  An Exception raised by the constructor, outside main's try,
   also exits with 1; a KeyboardInterrupt there is caught by nothing and the
   status is neither 0 nor 1.  *)
C12_ExitStatus ==
    (Epd /\ pc = "done") =>
      /\ status = 0 <=> (ret = "True" /\ exc = "none")
      /\ status = 0 => /\ Cmds(log) = ExpectedCommands
                       /\ log[Len(log)].byte = 165 /\ log[Len(log)].kind = "data"
      /\ cleaned = 1 => /\ status \in {0, 1}
                        /\ (exc # "none" \/ ret = "False") => status = 1
      /\ cleaned = 0 => /\ exc # "none" /\ log = <<>>
                        /\ status = IF exc = "Exception" THEN 1 ELSE 130

C12_Witness ==
    Epd /\ pc = "done" /\ status = 1 /\ exc = "KeyboardInterrupt"
    /\ cleaned = 1 /\ Len(Cmds(log)) = 5

(* C13: in epaper_test.py DC is LOW at every transfer made by _send_command
   and HIGH at every transfer made by _send_data, and no transfer is made by
   anything else.  *)
C13_DcMatchesKind ==
    Epd => \A i \in 1..Len(log) :
             /\ log[i].kind \in {"cmd", "data"}
             /\ log[i].kind = "cmd" => log[i].dc = "LOW"
             /\ log[i].kind = "data" => log[i].dc = "HIGH"

C13_Witness ==
    /\ Epd /\ pc = "draw_rows2" /\ y = 1
    /\ log[Len(log)].kind = "data" /\ gpio["DC"] = "HIGH"
    /\ log[Len(log) - 1].kind = "cmd" /\ log[Len(log) - 1].byte = 19

(* The power-on wait of init() has returned False.  *)
PowerOnTimedOut == Epd /\ pc = "power_on_wait" /\ wpc = "ret" /\ waitRet = "False"

(* C14: when the power-on wait of init() times out, 0x04 is the only command
   sent so far; the next step leaves the try with main returning False and
   sends nothing; and from the finally clause on no byte is sent at all, so
   0x00, 0x61, 0x10, 0x13, 0x12, 0x02 and 0x07 are never issued in that run. *)
C14_NoCommandAfterPowerOnTimeout ==
    /\ [](PowerOnTimedOut => (Cmds(log) = <<4>> /\ Len(log) = 1))
    /\ [][PowerOnTimedOut => (pc' = "finally" /\ ret' = "False" /\ log' = log)]_vars
    /\ [][(Epd /\ pc \in {"finally", "exit", "done"}) =>
            (log' = log /\ pc' \in {"exit", "done"})]_vars

C14_Witness ==
    /\ Epd /\ pc = "done" /\ ret = "False" /\ exc = "none" /\ status = 1
    /\ timeouts = 1 /\ Cmds(log) = <<4>>

(* C15: in epaper_test.py, once the EPD object is constructed, cleanup() runs
   exactly once on every path out of main: not before the finally clause,
   once by the time main is left, and every run that entered the try gets
   there.  The step that runs it attempts spi.close() and GPIO.cleanup(), both,
   raises nothing (exc and the value main returns are as before) and sends
   nothing; after it no byte is sent and RST is not written.  *)
C15_CleanupExactlyOnce ==
    /\ [](Epd =>
           /\ pc \in (EpdTryPcs \cup {"start", "finally"}) =>
                (cleaned = 0 /\ cleanupCalls = <<>>)
           /\ pc = "exit" =>
                (cleaned = 1 /\ cleanupCalls = <<"spi.close", "GPIO.cleanup">>)
           /\ pc = "done" =>
                \/ cleaned = 1 /\ cleanupCalls = <<"spi.close", "GPIO.cleanup">>
                \/ cleaned = 0 /\ exc # "none" /\ log = <<>> /\ rstLog = <<>>)
    /\ [][(Epd /\ cleaned' # cleaned) =>
            (pc = "finally" /\ pc' = "exit" /\ exc' = exc /\ ret' = ret /\ log' = log)]_vars
    /\ [][(Epd /\ cleaned >= 1) => (log' = log /\ rstLog' = rstLog)]_vars
    /\ (Epd /\ pc = "init_gpio") ~> (cleaned = 1)

C15_Witness ==
    /\ Epd /\ pc = "done" /\ exc = "Exception" /\ cleaned = 1
    /\ cleanupCalls = <<"spi.close", "GPIO.cleanup">> /\ Len(Cmds(log)) = 3

(* The data bytes that follow position i - 1 of a log, as runs of equal
   bytes, up to the next command; and how many bytes a list of runs holds.  *)
RECURSIVE DataRun(_, _)
DataRun(l, i) ==
    IF i > Len(l) \/ l[i].kind # "data" THEN <<>>
    ELSE <<[byte |-> l[i].byte, n |-> l[i].n]>> \o DataRun(l, i + 1)

RECURSIVE Total(_)
Total(runs) == IF runs = <<>> THEN 0 ELSE Head(runs).n + Total(Tail(runs))

(* The position in the log of the k-th command.  *)
CmdPos(l, k) ==
    CHOOSE i \in 1..Len(l) :
        l[i].kind = "cmd" /\ Cardinality({j \in 1..i : l[j].kind = "cmd"}) = k

(* A pass whose first command is the k-th of the run and whose refresh has
   been issued: 0x10, its data, 0x13, its data, 0x12, nothing in between; both
   streams hold EPD_WIDTH * EPD_HEIGHT / 4 bytes and are equal; the refresh is
   one transfer and the command after it, if any, is no refresh.  *)
PassComplete(k) ==
    LET a == CmdPos(log, k)
        b == CmdPos(log, k + 1)
        c == CmdPos(log, k + 2)
        first == DataRun(log, a + 1)
        second == DataRun(log, b + 1)
    IN /\ log[a].byte = 16 /\ log[b].byte = 19 /\ log[c].byte = 18
       /\ b = a + Len(first) + 1
       /\ c = b + Len(second) + 1
       /\ Total(first) = (EPD_WIDTH * EPD_HEIGHT) \div 4
       /\ Total(second) = (EPD_WIDTH * EPD_HEIGHT) \div 4
       /\ second = first
       /\ log[c].n = 1
       /\ Len(Cmds(log)) > k + 2 => Cmds(log)[k + 3] # 18

(* C16: each of clear() (commands 4 to 6 of the run) and draw_test_pattern()
   (commands 7 to 9) sends 0x10 and EPD_WIDTH * EPD_HEIGHT / 4 data bytes, 0x13
   and the same bytes again, then one refresh 0x12, issued right after the
   last data byte of the second transmission.  *)
C16_TwoEqualStreamsThenRefresh ==
    Epd => \A k \in {4, 7} : Len(Cmds(log)) >= k + 2 => PassComplete(k)

C16_Witness ==
    Epd /\ pc = "sleep_off" /\ Len(Cmds(log)) = 9 /\ Len(DataRun(log, CmdPos(log, 8) + 1)) = 6

(* The wait called at position p of main's sequence has returned False.  *)
WaitTimedOutAt(p) == Epd /\ pc = p /\ wpc = "ret" /\ waitRet = "False"

(* C17: after init() has succeeded a timeout is not fatal.  When the wait of
   a _refresh() or of sleep() has returned False, the step the program takes
   next, unless something else raises an exception at that moment, is the one
   it takes after a wait that returned True: after the clear's refresh
   draw_test_pattern() starts, after the pattern's refresh sleep() starts,
   and after the wait of sleep() 0x07 and 0xA5 are sent and main returns True.
   A run that sent 0x02 and left the try with no exception sent 0x07 and 0xA5
   after it and returns True.  *)
C17_TimeoutNotFatal ==
    /\ [][(WaitTimedOutAt("clear_wait") /\ exc' = exc) =>
            (pc' = "draw_cmd1" /\ log' = log /\ ret' = ret)]_vars
    /\ [][(WaitTimedOutAt("draw_wait") /\ exc' = exc) =>
            (pc' = "sleep_off" /\ log' = log /\ ret' = ret)]_vars
    /\ [][(WaitTimedOutAt("sleep_wait") /\ exc' = exc) =>
            /\ pc' = "finally" /\ ret' = "True"
            /\ Cmds(log') = ExpectedCommands
            /\ log'[Len(log')].byte = 165 /\ log'[Len(log')].kind = "data"]_vars
    /\ []((Epd /\ pc \in {"finally", "exit", "done"} /\ exc = "none"
               /\ Count(Cmds(log), 2) = 1) =>
            /\ ret = "True"
            /\ Cmds(log) = ExpectedCommands
            /\ log[Len(log)].byte = 165 /\ log[Len(log) - 1].byte = 7)

C17_Witness ==
    Epd /\ pc = "done" /\ ret = "True" /\ exc = "none" /\ status = 0 /\ timeouts = 3

(* C18: in simple_test.py the two chip selects are never asserted together.
   Once init_gpio() has driven them there is no state in which CS_M and CS_S
   are both LOW, each SPI transfer is made with exactly one of the two LOW
   (the first with CS_M, the second with CS_S), and when
   test_spi_communication() has returned True both are HIGH.  *)
C18_ChipSelectsExclusive ==
    Simple =>
        /\ ~(gpio["CS_M"] = "LOW" /\ gpio["CS_S"] = "LOW")
        /\ \A i \in 1..Len(log) : log[i].cs \in {{"CS_M"}, {"CS_S"}}
        /\ Len(log) >= 1 => log[1].cs = {"CS_M"}
        /\ Len(log) >= 2 => log[2].cs = {"CS_S"}
        /\ ("SPI test passed" \in out /\ pc = "finally") =>
               (gpio["CS_M"] = "HIGH" /\ gpio["CS_S"] = "HIGH")

C18_Witness ==
    /\ Simple /\ pc = "finally" /\ "SPI test passed" \in out
    /\ Len(log) = 2 /\ log[1].cs = {"CS_M"} /\ log[2].cs = {"CS_S"}

(* simple_test.py: test_pins() has returned (init_gpio wrote RST once and
   test_pins three times).  *)
TestPinsReturned == Len(rstLog) = 4

(* C19 as stated: the exit status of simple_test.py is 1 exactly when an
   exception escaped init_gpio() or test_pins(), and 0 otherwise, a failed SPI
   sub-test included.  *)
C19_ExitOneIffEscaped ==
    (Simple /\ pc = "done") =>
      /\ status = 1 <=> (exc # "none" /\ ~TestPinsReturned)
      /\ status = 0 <=> ~(exc # "none" /\ ~TestPinsReturned)

(* C19 as amended: unless a KeyboardInterrupt ends the run, the exit status is
   1 exactly when an Exception escaped init_gpio() or test_pins() (main
   returned False) and 0 otherwise; a failed SPI sub-test still ends with main
   returning True and status 0.  A KeyboardInterrupt, in init_gpio(),
   test_pins() or test_spi_communication(), is caught by nothing: main returns
   no value and the status is neither 0 nor 1.  *)
C19_ExitStatus ==
    (Simple /\ pc = "done") =>
      /\ cleaned = 1
      /\ status = 1 <=> (exc = "Exception" /\ ~TestPinsReturned /\ ret = "False")
      /\ status = 0 <=> (exc = "none" /\ ret = "True")
      /\ exc = "none" => TestPinsReturned
      /\ "SPI test failed" \in out => (status = 0 /\ ret = "True")
      /\ exc = "KeyboardInterrupt" <=> status = 130

C19_Witness ==
    Simple /\ pc = "done" /\ "SPI test failed" \in out /\ status = 0 /\ ret = "True"

(* fetch_flags.py: the processing of country c completed in this run without
   an exception: its fields were readable and, if its flag was requested, the
   BMP was saved.  *)
ProcessedOk(c) == FieldsOk(c) /\ (<<run, c>> \in fetched => <<run, c>> \in saved)

(* C20: in fetch_and_save_flags() a failure while processing one country is
   caught for that country only.  During the loop index_data lists, in
   response order, the countries processed so far without an exception; a run
   that is not interrupted and whose API request succeeded ends with
   index.json written and listing exactly the countries whose processing
   completed, in response order; a run whose API request failed processed no
   country and wrote no index.json.  *)
C20_FailureCaughtPerCountry ==
    Fetch =>
      /\ pc = "countries" =>
            index_data = SelectSeq(SubSeq(Countries, 1, step - 1), ProcessedOk)
      /\ (pc = "done" /\ exc # "KeyboardInterrupt") =>
            IF exc = "Exception"
            THEN /\ \A c \in CountrySet : <<run, c>> \notin fetched
                 /\ run = 1 => (~indexFile.written /\ info = {})
            ELSE /\ indexFile.written
                 /\ indexFile.content = SelectSeq(Countries, ProcessedOk)

(* The cached BMP f is unusable in the words of the caching rule: it does not
   exist, or cannot be opened and validated, or is not 800x480, or fewer than
   half of its pixels differ from white.  *)
CacheUnusable(f) ==
    \/ f.kind = "absent"
    \/ f.kind = "corrupt"
    \/ f.kind = "bmp" /\ (f.w # 800 \/ f.h # 480)
    \/ f.kind = "bmp" /\ 2 * f.ink < f.w * f.h

(* C21: for each country whose fields were read, one iteration of the loop
   requests the flag if and only if the cached BMP does not exist, or cannot
   be opened and validated, or is not 800x480, or has fewer than half of its
   pixels different from white; a requested flag that is saved leaves an
   800x480 BMP, and a flag that is not requested leaves the file as it was.
   In every iteration in which no exception occurs the metadata JSON is
   written and the name is appended to the index, whether or not the flag was
   requested; in an iteration with an exception neither happens.  *)
C21_DownloadIffCacheUnusable ==
    [][(Fetch /\ pc = "countries" /\ step <= Len(Countries) /\ step' = step + 1) =>
         LET c == Countries[step]
             requested == <<run, c>> \in fetched'
             stored == <<run, c>> \in saved'
             noException == FieldsOk(c) /\ (requested => stored)
         IN /\ <<run, c>> \notin fetched
            /\ FieldsOk(c) => (requested <=> CacheUnusable(files[c]))
            /\ ~FieldsOk(c) => ~requested
            /\ stored => (requested /\ files'[c] = Bmp(800, 480, api[c].ink))
            /\ ~stored => files'[c] = files[c]
            /\ noException => (c \in info' /\ index_data' = Append(index_data, c))
            /\ ~noException => (info' = info /\ index_data' = index_data)]_vars

C21_Witness ==
    /\ Fetch /\ pc = "countries" /\ step = 2 /\ run = 1
    /\ files["japan"] = Bmp(800, 480, (800 * 480) \div 2)
    /\ <<1, "japan">> \notin fetched
    /\ index_data = <<"japan">> /\ "japan" \in info

(* The positions inside test_display_reset_sequence, and the line its monitor
   prints when the loop runs to its end.  *)
ResetSequencePcs == {"d4_setup", "d4_reset", "d4_power_on", "d4_monitor", "d4_finish"}

NoChangeLine == "BUSY pin did not change state"

(* C22: the BUSY monitor of test_display_reset_sequence takes at most 100
   samples after the power-on command; while it runs every sample taken so far
   equalled the initial one, so it stops at the first sample that differs; it
   prints 'BUSY pin did not change state' exactly when all 100 samples
   equalled the initial one.  In both cases the function, unless an exception
   ends it, returns True and the check is recorded as passed.  Every step
   that leaves the function, by return, exception or interrupt, leaves the
   GPIO channels released by GPIO.cleanup().  *)
C22_BusyMonitor ==
    /\ [](Diag /\ pc = "d4_monitor" =>
            /\ step \in 0..MonitorSamples
            /\ log[Len(log)].byte = 4
            /\ NoChangeLine \notin out
            /\ step > 0 => current_busy = busy0)
    /\ [](Diag /\ pc = "d4_finish" =>
            /\ NoChangeLine \in out <=> (step = MonitorSamples /\ current_busy = busy0)
            /\ NoChangeLine \notin out <=> (step < MonitorSamples /\ current_busy # busy0))
    /\ [][(Diag /\ pc = "d4_monitor" /\ current_busy' # current_busy) =>
            (step < MonitorSamples /\ (current_busy' # busy0 <=> pc' = "d4_finish"))]_vars
    /\ [][(Diag /\ pc = "d4_finish" /\ Len(outcomes') = 4 /\ outcomes'[4] = "True") =>
            results' = Append(results, <<"Display Reset Sequence", TRUE>>)]_vars
    /\ []((Diag /\ Len(results) = 4 /\ ~results[4][2]) => outcomes[4] # "True")
    /\ [](Diag /\ pc \in {"d4_monitor", "d4_finish"} =>
            (gpio["RST"] = "HIGH" /\ gpio["DC"] = "LOW"))
    /\ [][(Diag /\ pc \in ResetSequencePcs /\ pc' \notin ResetSequencePcs) =>
            gpio' = Released]_vars

C22_Witness ==
    /\ Diag /\ pc = "summary" /\ NoChangeLine \in out
    /\ Len(results) = 4 /\ results[4] = <<"Display Reset Sequence", TRUE>>
    /\ gpio = Released

=============================================================================
